---- MODULE Spec2Model ----
(***************************************************************************)
(* Role policy, credential store and OAuth account resolution of the       *)
(* iSafari backend.                                                        *)
(*                                                                         *)
(*   role middleware   src/unnamed/part_001  (preventRoleModification,     *)
(*                     stripRoleFields, validateRole)                      *)
(*   users table       src/unnamed/part_003  (CHECK constraints) and the   *)
(*                     SQL statements of the suite in                      *)
(*                     src/src/contexts/CartContext.jsx, lines 244-991     *)
(*                                                                         *)
(* The request handlers that run after the middleware, the code that       *)
(* attaches req.user, registration and the OAuth resolver are not among    *)
(* the source files; they are modelled from spec.md and marked as such.    *)
(***************************************************************************)
EXTENDS Integers, Sequences, FiniteSets, TLC

\* ------------------------------------------------------------------ bounds

\* Rows the users table may hold.
MaxUsers == 2

\* The calls of CartProvider functions a run makes.
MaxCalls == 3

\* The calls that may be awaiting at the same time.
MaxInFlight == 2

\* The times the auth_provider migration is run on a table.
MaxRuns == 2

\* ------------------------------------------------------------ value spaces

\* validRoles, part_001:100, and users_user_type_check, part_003:32.
validRoles == {"traveler", "service_provider", "admin"}

\* The roles a new account may ask for with admin among them.
roleGen_WithAdmin == {"traveler", "service_provider", "admin"}

\* roleGen, CartContext.jsx:262: the roles a client may choose.
roleGen == {"traveler", "service_provider"}

\* authProviderGen, CartContext.jsx:267, and the CHECK of part_003:7.
authProviderGen == {"email", "google", "both"}

\* SQL NULL / a column not given.
NULL == "NULL"

\* A JavaScript undefined where a string is expected: a missing body key.
Undefined == "undefined"

\* Role strings a request or an INSERT may carry: the valid ones, one that
\* no constraint admits, and the empty string (falsy in JavaScript).
RoleStrings == validRoles \cup {"superuser", ""}

\* auth_provider strings an INSERT may carry.
ProviderStrings == authProviderGen \cup {"facebook"}

\* Email addresses, as many as the table has room for rows.
EmailList == <<"a@test.com", "b@test.com", "c@test.com", "d@test.com">>

Emails == {EmailList[i] : i \in 1..MaxUsers}

\* google_id values (googleIdGen, CartContext.jsx:266) and the email Google
\* asserts for each identity.
GoogleIds == {"g1", "g2"}

GoogleEmail(g) == IF g = "g1" THEN "a@test.com" ELSE "b@test.com"

\* The keys of the rows of a users table keyed by UUID (spec.md 3, "numeric
\* or UUID id"), by the first characters of each.
UuidList ==
  <<<<"1", "a", "4", "e">>, <<"1", "c", "9", "b">>,
    <<"e", "7", "0", "2">>, <<"2", "f", "3", "3">>>>

Uuid(i) == UuidList[i]

\* ------------------------------------------------------------ JavaScript

\* !!v of a string value: undefined and "" are falsy, every other string
\* is truthy.
Truthy(v) == v # Undefined /\ v # ""

\* a || b on string values
Or(a, b) == IF Truthy(a) THEN a ELSE b

\* An id as a request carries it (req.params.id, body.userId) is a sequence
\* of characters; the empty sequence stands for both undefined and "",
\* which are the falsy ones.
NoId == <<>>

TruthyId(s) == s # NoId

OrId(a, b) == IF TruthyId(a) THEN a ELSE b

\* req.user when no authenticated user is attached, and req.body when no
\* body was parsed.
NoUser == [undefined |-> TRUE]

NoBody == [undefined |-> TRUE]

Digits == {"0", "1", "2", "3", "4", "5", "6", "7", "8", "9"}

DigitVal(c) ==
  CASE c = "0" -> 0 [] c = "1" -> 1 [] c = "2" -> 2 [] c = "3" -> 3
    [] c = "4" -> 4 [] c = "5" -> 5 [] c = "6" -> 6 [] c = "7" -> 7
    [] c = "8" -> 8 [] c = "9" -> 9

\* The value parseInt gives when no digit leads the string. It is a number
\* no id parses to; StrictEq treats it as JavaScript treats NaN.
NaN == -1

\* An id string is a sequence of characters. String(n) of a number n >= 0.
RECURSIVE NumberToString(_)
NumberToString(n) ==
  IF n < 10 THEN <<CHOOSE c \in Digits : DigitVal(c) = n>>
  ELSE Append(NumberToString(n \div 10), CHOOSE c \in Digits : DigitVal(c) = n % 10)

\* The longest prefix of s made of digits.
RECURSIVE DigitPrefix(_)
DigitPrefix(s) ==
  IF s = <<>> \/ Head(s) \notin Digits THEN <<>>
  ELSE <<Head(s)>> \o DigitPrefix(Tail(s))

RECURSIVE DecimalValue(_)
DecimalValue(s) ==
  IF s = <<>> THEN 0
  ELSE 10 * DecimalValue(SubSeq(s, 1, Len(s) - 1)) + DigitVal(s[Len(s)])

\* parseInt(s) of an id string: the number its leading digits spell, NaN
\* when it has none; what follows the digits is ignored.
parseInt(s) ==
  IF DigitPrefix(s) = <<>> THEN NaN ELSE DecimalValue(DigitPrefix(s))

\* a === b on the numbers parseInt returns: NaN equals nothing.
StrictEq(a, b) == a # NaN /\ b # NaN /\ a = b

\* ------------------------------------------------------------ requests

\* The two spellings of the role key.
RoleKeys == {"user_type", "userType"}

\* body.k, undefined when the key is missing.
Get(body, k) == IF k \in DOMAIN body THEN body[k] ELSE Undefined

\* delete body.k
Delete(body, k) == [x \in (DOMAIN body) \ {k} |-> body[x]]

\* What a middleware did with a request: called next() (with the body it
\* leaves on the request), or sent a response.
Passed(body) == [next |-> TRUE, status |-> 0, code |-> "", body |-> body]

Sent(status, code, body) ==
  [next |-> FALSE, status |-> status, code |-> code, body |-> body]

\* part_001:16
attemptedRoleChange(body) == Or(Get(body, "user_type"), Get(body, "userType"))

\* body.userId
GetId(body) == IF "userId" \in DOMAIN body THEN body["userId"] ELSE NoId

\* part_001:39
targetUserId(req) ==
  OrId(req.params.id, OrId(req.params.userId, GetId(req.body)))

\* currentUser.id as parseInt reads it (part_001:42, 56), a string: the
\* digits of a numeric id, or the UUID itself where the users table is
\* keyed by UUID. A token of such a table carries the UUID as uuid, and id
\* stays the position of the row in users.
IdChars(user) ==
  IF "uuid" \in DOMAIN user THEN user.uuid ELSE NumberToString(user.id)

\* Line 42 comparing the path's string with the numeric id by === alone:
\* only a request without a target is about the own record.
IsOwnTarget_NoParse(req) == ~TruthyId(targetUserId(req))

\* part_001:42: the request is about the actor's own record.
IsOwnTarget(req) ==
  \/ ~TruthyId(targetUserId(req))
  \/ StrictEq(parseInt(targetUserId(req)), parseInt(IdChars(req.user)))

\* Line 56 looking for the target in body.userId only.
IsOtherTarget_BodyOnly(req) ==
  /\ TruthyId(GetId(req.body))
  /\ ~StrictEq(parseInt(GetId(req.body)), parseInt(IdChars(req.user)))

\* part_001:56: the request is about somebody else's record.
IsOtherTarget(req) ==
  /\ TruthyId(targetUserId(req))
  /\ ~StrictEq(parseInt(targetUserId(req)), parseInt(IdChars(req.user)))

\* The admin test reading a key the token does not carry.
IsAdmin_WrongKey(user) == user # NoUser /\ Get(user, "role") = "admin"

\* part_001:34 and part_001:83
IsAdmin(user) == user # NoUser /\ user.user_type = "admin"

\* preventRoleModification without line 45: a role for the own record is
\* refused also when it is the role the actor has.
preventRoleModification_DenyOwn(req) ==
  IF req.body = NoBody THEN Sent(500, "", req.body)
  ELSE IF ~Truthy(attemptedRoleChange(req.body)) THEN Passed(req.body)
  ELSE IF req.user = NoUser THEN Sent(401, "", req.body)
  ELSE IF IsAdmin(req.user) THEN Passed(req.body)
  ELSE IF IsOwnTarget(req)
    THEN Sent(403, "ROLE_MODIFICATION_FORBIDDEN", req.body)
  ELSE IF IsOtherTarget(req) THEN Sent(403, "ADMIN_REQUIRED", req.body)
  ELSE Passed(req.body)

\* preventRoleModification with lines 24-31 ahead of lines 18-21: the
\* token is asked for before the body is looked at.
preventRoleModification_AuthFirst(req) ==
  IF req.body = NoBody THEN Sent(500, "", req.body)
  ELSE IF req.user = NoUser THEN Sent(401, "", req.body)
  ELSE IF ~Truthy(attemptedRoleChange(req.body)) THEN Passed(req.body)
  ELSE IF IsAdmin(req.user) THEN Passed(req.body)
  ELSE IF IsOwnTarget(req) /\ attemptedRoleChange(req.body) # req.user.user_type
    THEN Sent(403, "ROLE_MODIFICATION_FORBIDDEN", req.body)
  ELSE IF IsOtherTarget(req) THEN Sent(403, "ADMIN_REQUIRED", req.body)
  ELSE Passed(req.body)

\* preventRoleModification without lines 41-53: a request about the
\* actor's own record is never refused.
preventRoleModification_NoOwnCheck(req) ==
  IF req.body = NoBody THEN Sent(500, "", req.body)
  ELSE IF ~Truthy(attemptedRoleChange(req.body)) THEN Passed(req.body)
  ELSE IF req.user = NoUser THEN Sent(401, "", req.body)
  ELSE IF IsAdmin(req.user) THEN Passed(req.body)
  ELSE IF IsOtherTarget(req) THEN Sent(403, "ADMIN_REQUIRED", req.body)
  ELSE Passed(req.body)

\* part_001:13-73. req.body = undefined makes line 16 throw; the catch
\* block answers 500.
preventRoleModification(req) ==
  IF req.body = NoBody THEN Sent(500, "", req.body)
  ELSE IF ~Truthy(attemptedRoleChange(req.body)) THEN Passed(req.body)
  ELSE IF req.user = NoUser THEN Sent(401, "", req.body)
  ELSE IF IsAdmin(req.user) THEN Passed(req.body)
  ELSE IF IsOwnTarget(req) /\ attemptedRoleChange(req.body) # req.user.user_type
    THEN Sent(403, "ROLE_MODIFICATION_FORBIDDEN", req.body)
  ELSE IF IsOtherTarget(req) THEN Sent(403, "ADMIN_REQUIRED", req.body)
  ELSE Passed(req.body)

\* What a run of a middleware did, in order: calls of next() and
\* responses sent.
CallNext == [kind |-> "next", status |-> 0]

Respond(status) == [kind |-> "response", status |-> status]

\* preventRoleModification with line 27 not returning: after the 401 the
\* run goes on to line 34, where reading user_type of undefined throws, and
\* the catch block sends the 500.
Effects_NoReturn(req) ==
  IF req.body # NoBody /\ Truthy(attemptedRoleChange(req.body))
     /\ req.user = NoUser
    THEN <<Respond(401), Respond(500)>>
  ELSE IF preventRoleModification(req).next THEN <<CallNext>>
  ELSE <<Respond(preventRoleModification(req).status)>>

\* part_001:13-73: every branch of the try block returns at its next() or
\* at its response (lines 20, 27, 35, 47, 58), line 65 is the last
\* statement, and the catch block (66-72) is entered only from a throw
\* before any of them; next() hands over to the router and does not throw
\* back into the middleware.
Effects(req) ==
  IF preventRoleModification(req).next THEN <<CallNext>>
  ELSE <<Respond(preventRoleModification(req).status)>>

\* stripRoleFields without line 89: userType stays in the body.
stripRoleFields_OneKey(req) ==
  IF IsAdmin(req.user) THEN Passed(req.body)
  ELSE IF req.body # NoBody THEN Passed(Delete(req.body, "user_type"))
  ELSE Passed(req.body)

\* part_001:79-94
stripRoleFields(req) ==
  IF IsAdmin(req.user) THEN Passed(req.body)
  ELSE IF req.body # NoBody
    THEN Passed(Delete(Delete(req.body, "user_type"), "userType"))
  ELSE Passed(req.body)

\* part_001:99-102
validateRole(role) == role \in validRoles

\* ------------------------------------------------------------ users table

VARIABLES
  users,          \* the users table: a sequence of rows, row i has id i
  session,        \* session[i]: the claims of the token user i's client holds
  roleAtCreation, \* history: the user_type each row was inserted with
  changedByAdmin, \* history: ids whose user_type an actor whose stored
                  \*   user_type was admin has changed
  changedByAdminToken, \* history: ids whose user_type an actor whose token
                  \*   said admin has changed
  last,           \* the last operation: what was asked and what came back
  cart,           \* the cart table: a sequence of line items, oldest first
  cartSeq,        \* the last id the cart table has given to a line item
  deleted,        \* history: the ids of the line items deleted so far
  cartItems,      \* cartItems[c]: the React state of the CartProvider of
                  \*   user c's client
  calls           \* the calls made to CartProvider functions, oldest first:
                  \*   where each stands, what it asked, what it was answered

cartVars == <<cart, cartSeq, deleted, cartItems, calls>>

vars ==
  <<users, session, roleAtCreation, changedByAdmin, changedByAdminToken, last,
    cart, cartSeq, cartItems, calls>>

UserIds == 1..MaxUsers

Ids == 1..Len(users)

\* A row of the users table with the columns the operations read or write.
Row(id, email, password, first_name, user_type, google_id, auth_provider) ==
  [id |-> id, email |-> email, password |-> password,
   first_name |-> first_name, user_type |-> user_type,
   google_id |-> google_id, auth_provider |-> auth_provider]

\* The table without users_user_type_check (part_003:24-28 finds a
\* constraint of that name and adds none): any role that is not NULL.
users_user_type_check_Missing(user_type) == user_type # NULL

\* part_003:30-32: CHECK (user_type IN ('traveler','service_provider','admin'))
users_user_type_check(user_type) ==
  user_type \in {"traveler", "service_provider", "admin"}

\* The auth_provider column added without its CHECK.
auth_provider_check_Missing(auth_provider) == auth_provider # NULL

\* part_003:5-7: CHECK (auth_provider IN ('email', 'google', 'both'))
auth_provider_check(auth_provider) ==
  auth_provider \in {"email", "google", "both"}

\* part_003:6: DEFAULT 'email' for an INSERT that names no auth_provider.
AuthProviderDefault(auth_provider) ==
  IF auth_provider = NULL THEN "email" ELSE auth_provider

\* The unique index on users.email.
EmailTaken(email) == \E i \in Ids : users[i].email = email

\* What the table accepts: both CHECK constraints, the unique email, and
\* room for the row (the model's bound on the table).
RowAccepted(row) ==
  /\ users_user_type_check(row.user_type)
  /\ auth_provider_check(row.auth_provider)
  /\ ~EmailTaken(row.email)

\* The lookup narrowed to rows that only ever signed in with Google.
FindByGoogleId_GoogleOnly(g) ==
  {i \in Ids : users[i].google_id = g /\ users[i].auth_provider = "google"}

\* SELECT * FROM users WHERE google_id = $1 (CartContext.jsx:778): the ids
\* of the rows found.
FindByGoogleId(g) == {i \in Ids : users[i].google_id = g}

\* User.findByEmail (part_002:123): the ids of the rows found.
FindByEmail(email) == {i \in Ids : users[i].email = email}

\* The payload built from a property the row does not have
\* (user.userType; the column is user_type): the role is undefined.
Claims_WrongColumn(row) ==
  [id |-> row.id, email |-> row.email, user_type |-> Undefined]

\* jwt.sign({id, email, userType}) (CartContext.jsx:870-874) as req.user
\* presents it: the id and the role of the row at issuance.
Claims(row) == [id |-> row.id, email |-> row.email, user_type |-> row.user_type]

\* rows[0] of a query result: the row found first.
First(found) == CHOOSE i \in found : \A j \in found : i <= j

\* useState([]) (CartContext.jsx:15) in every client, an empty cart table
\* and no call made.
InitCartVars ==
  /\ cart = <<>>
  /\ cartSeq = 0
  /\ deleted = {}
  /\ cartItems = [c \in UserIds |-> <<>>]
  /\ calls = <<>>

Init ==
  /\ users = <<>>
  /\ session = [i \in UserIds |-> NoUser]
  /\ roleAtCreation = <<>>
  /\ changedByAdmin = {}
  /\ changedByAdminToken = {}
  /\ last = [op |-> "none"]
  /\ InitCartVars

\* ------------------------------------------------------------ SQL of the suite

\* The INSERT without the auth_provider column: the row gets the default.
NewRow_NoProvider(email, password, user_type, google_id, auth_provider) ==
  Row(Len(users) + 1, email, password, "Ann", user_type, google_id,
      AuthProviderDefault(NULL))

\* INSERT INTO users (...) VALUES (...) RETURNING * as the suite issues it
\* (CartContext.jsx:312-319, 394-401, 484-493, 555-558, 612-615): any
\* user_type string, optional password, google_id and auth_provider.
NewRow(email, password, user_type, google_id, auth_provider) ==
  Row(Len(users) + 1, email, password, "Ann", user_type, google_id,
      AuthProviderDefault(auth_provider))

InsertUser(email, password, user_type, google_id, auth_provider) ==
  LET row == NewRow(email, password, user_type, google_id, auth_provider)
  IN /\ Len(users) < MaxUsers
     /\ IF RowAccepted(row)
          THEN /\ users' = Append(users, row)
               /\ roleAtCreation' = Append(roleAtCreation, user_type)
          ELSE UNCHANGED <<users, roleAtCreation>>
     /\ UNCHANGED <<session, changedByAdmin, changedByAdminToken>>

\* What the INSERT answers: the row (RETURNING *), or the constraint
\* violation (error code 23514 for a CHECK, CartContext.jsx:324).
InsertResult(email, password, user_type, google_id, auth_provider) ==
  LET row == NewRow(email, password, user_type, google_id, auth_provider)
  IN [op |-> "insert", ok |-> RowAccepted(row), row |-> row,
      values |-> <<password, user_type, google_id, auth_provider>>]

\* UPDATE users SET first_name = $1 WHERE id = $2 (CartContext.jsx:969-973)
UpdateProfile(id, first_name) ==
  /\ id \in Ids
  /\ users' = [users EXCEPT ![id].first_name = first_name]
  /\ UNCHANGED <<session, roleAtCreation, changedByAdmin, changedByAdminToken>>

\* expiresIn (CartContext.jsx:441, 873): the token of user i's client
\* expires; jwt.verify fails from then on and the client presents no user
\* until a token is issued again.
Expire(i) ==
  /\ session[i] # NoUser
  /\ session' = [session EXCEPT ![i] = NoUser]
  /\ UNCHANGED <<users, roleAtCreation, changedByAdmin, changedByAdminToken>>

\* ------------------------------------------------------------ account resolver

\* POST /auth/register (spec.md 4.2, 2): a role outside {traveler,
\* service_provider} is a validation error (400), a known email is
\* DUPLICATE_EMAIL (409); otherwise the row is created with the password
\* hash and auth_provider = email (201), and a token is issued.
RegisterStatus(email, role) ==
  IF role \notin roleGen THEN 400
  ELSE IF FindByEmail(email) # {} THEN 409
  ELSE 201

Register(email, role) ==
  LET row == Row(Len(users) + 1, email, "hash", "Ann", role, NULL, "email")
  IN /\ RegisterStatus(email, role) = 201 => Len(users) < MaxUsers
     /\ IF RegisterStatus(email, role) = 201
          THEN /\ users' = Append(users, row)
               /\ roleAtCreation' = Append(roleAtCreation, role)
               /\ session' = [session EXCEPT ![row.id] = Claims(row)]
          ELSE UNCHANGED <<users, roleAtCreation, session>>
     /\ UNCHANGED <<changedByAdmin, changedByAdminToken>>

RegisterResult(email, role) ==
  [op |-> "register", status |-> RegisterStatus(email, role),
   email |-> email, role |-> role]

\* A string as the characters it is made of, for the string methods that
\* work on characters; Text(chars) is the string itself.
RECURSIVE Text(_)
Text(chars) ==
  IF chars = <<>> THEN "" ELSE chars[1] \o Text(Tail(chars))

\* String.prototype.toLowerCase on the letters the addresses use.
LowerChar(ch) ==
  CASE ch = "A" -> "a" [] ch = "B" -> "b" [] ch = "C" -> "c"
    [] ch = "E" -> "e" [] ch = "M" -> "m" [] ch = "O" -> "o"
    [] ch = "S" -> "s" [] ch = "T" -> "t"
    [] OTHER -> ch

toLowerCase(chars) == [i \in 1..Len(chars) |-> LowerChar(chars[i])]

\* String.prototype.trim: the white space at both ends goes.
RECURSIVE trimStart(_)
trimStart(chars) ==
  IF chars # <<>> /\ chars[1] = " " THEN trimStart(Tail(chars)) ELSE chars

RECURSIVE trimEnd(_)
trimEnd(chars) ==
  IF chars # <<>> /\ chars[Len(chars)] = " "
    THEN trimEnd(SubSeq(chars, 1, Len(chars) - 1)) ELSE chars

trim(chars) == trimEnd(trimStart(chars))

\* The address looked up as it was typed.
LookupEmail_AsTyped(chars) == Text(chars)

\* email.toLowerCase().trim() (part_002:123)
LookupEmail(chars) == Text(trim(toLowerCase(chars)))

\* POST /auth/login (part_002:118-144, spec.md 4.2, 1): 401 when no row has
\* the email, when the row has no password hash, when the password does
\* not match; otherwise a token with the row's id, email and role.
LoginStatus(email, passwordMatches) ==
  IF FindByEmail(email) = {} THEN 401
  ELSE IF users[First(FindByEmail(email))].password = NULL THEN 401
  ELSE IF ~passwordMatches THEN 401
  ELSE 200

Login(email, passwordMatches) ==
  /\ IF LoginStatus(email, passwordMatches) = 200
       THEN LET i == First(FindByEmail(email))
            IN session' = [session EXCEPT ![i] = Claims(users[i])]
       ELSE UNCHANGED session
  /\ UNCHANGED <<users, roleAtCreation, changedByAdmin, changedByAdminToken>>

LoginResult(email, passwordMatches) ==
  [op |-> "login", status |-> LoginStatus(email, passwordMatches),
   email |-> email,
   token |-> IF LoginStatus(email, passwordMatches) = 200
               THEN Claims(users[First(FindByEmail(email))]) ELSE NoUser]

\* router.post('/login') (part_002:118-144) for the address as the client
\* typed it.
PostLogin(chars, passwordMatches) ==
  Login(LookupEmail(chars), passwordMatches)

PostLoginResult(chars, passwordMatches) ==
  [op |-> "login", typed |-> Text(chars), passwordMatches |-> passwordMatches,
   status |-> LoginStatus(LookupEmail(chars), passwordMatches),
   email |-> LookupEmail(chars),
   token |-> LoginResult(LookupEmail(chars), passwordMatches).token]

\* POST /auth/google (spec.md 4.2, 3) for the verified identity g with
\* Google's email for it, and the role the client sent (Undefined when it
\* sent none). Which case the sign-in is:
\*   "returning"  a row has this google_id: the role sent is ignored;
\*   "link"       else a row has the email and no google_id;
\*   "select"     else, without a role out of {traveler, service_provider}:
\*                nothing is created, the client is told to ask for one;
\*   "create"     else the row is created with auth_provider = google;
\*   "conflict"   the table refuses the new row (the email belongs to a row
\*                with another google_id).
Linkable(g) ==
  {i \in FindByEmail(GoogleEmail(g)) : users[i].google_id = NULL}

\* The link written with the provider of a Google-only account.
LinkGoogle_ProviderGoogle(row, g) ==
  [row EXCEPT !.google_id = g, !.auth_provider = "google"]

\* UPDATE users SET google_id = $1, auth_provider = 'both' WHERE id = $2
\* (CartContext.jsx:508-513): the row after the link.
LinkGoogle(row, g) == [row EXCEPT !.google_id = g, !.auth_provider = "both"]

GoogleRow(g, role) ==
  Row(Len(users) + 1, GoogleEmail(g), NULL, "Ann", role, g, "google")

OAuthCase(g, role) ==
  IF FindByGoogleId(g) # {} THEN "returning"
  ELSE IF Linkable(g) # {} THEN "link"
  ELSE IF role \notin roleGen THEN "select"
  ELSE IF RowAccepted(GoogleRow(g, role)) THEN "create"
  ELSE "conflict"

OAuthSignIn(g, role) ==
  LET case == OAuthCase(g, role)
  IN /\ case = "create" => Len(users) < MaxUsers
     /\ CASE case = "returning" ->
               LET i == First(FindByGoogleId(g))
               IN /\ session' = [session EXCEPT ![i] = Claims(users[i])]
                  /\ UNCHANGED <<users, roleAtCreation>>
          [] case = "link" ->
               LET i == First(Linkable(g))
               IN /\ users' = [users EXCEPT ![i] = LinkGoogle(users[i], g)]
                  /\ session' = [session EXCEPT ![i] = Claims(users[i])]
                  /\ UNCHANGED roleAtCreation
          [] case = "create" ->
               /\ users' = Append(users, GoogleRow(g, role))
               /\ roleAtCreation' = Append(roleAtCreation, role)
               /\ session' = [session EXCEPT
                                ![Len(users) + 1] = Claims(GoogleRow(g, role))]
          [] OTHER -> UNCHANGED <<users, roleAtCreation, session>>
     /\ UNCHANGED <<changedByAdmin, changedByAdminToken>>

\* What POST /auth/google answers: {user, token, needsRoleSelection}; id is
\* the id of the row returned, 0 when none is.
OAuthResult(g, role) ==
  LET case == OAuthCase(g, role)
      id == CASE case = "returning" -> First(FindByGoogleId(g))
              [] case = "link" -> First(Linkable(g))
              [] case = "create" -> Len(users) + 1
              [] OTHER -> 0
  IN [op |-> "oauth", g |-> g, role |-> role, case |-> case, id |-> id,
      user_type |-> CASE case = "create" -> role
                      [] id # 0 -> users[id].user_type
                      [] OTHER -> Undefined,
      needsRoleSelection |-> (case = "select")]

\* ------------------------------------------------------------ PATCH /users/:id

\* The row a target id names, 0 when it names none: where the id column
\* is an integer only a string of digits names a row, and where it is a
\* UUID only the UUID of the row does.
TargetRow(t) ==
  IF t # NoId /\ DigitPrefix(t) = t /\ DecimalValue(t) \in Ids
    THEN DecimalValue(t)
  ELSE IF \E i \in Ids : Uuid(i) = t
    THEN CHOOSE i \in Ids : Uuid(i) = t
  ELSE 0

\* The handler behind the role middleware (spec.md 4.1 "the caller", 6
\* PATCH /users/:id), given the request as the middleware left it: it
\* needs an authenticated user and a body, changes the row the target id
\* names (the actor's own row when the request names none), writes the
\* role the request carries and its first_name, and commits the whole
\* change or none of it. The answer is the HTTP status and the id written
\* (0: nothing is written).
UpdateUser(req) ==
  LET t == targetUserId(req)
      id == IF TruthyId(t) THEN TargetRow(t) ELSE req.user.id
      role == attemptedRoleChange(req.body)
  IN IF req.user = NoUser THEN [status |-> 401, id |-> 0]
     ELSE IF req.body = NoBody THEN [status |-> 400, id |-> 0]
     ELSE IF id = 0 THEN [status |-> 404, id |-> 0]
     ELSE IF Truthy(role) /\ ~users_user_type_check(role)
       THEN [status |-> 500, id |-> 0]
     ELSE [status |-> 200, id |-> id]

\* The row after the UPDATE the handler issues.
UpdatedRow(row, body) ==
  [row EXCEPT
     !.user_type = IF Truthy(attemptedRoleChange(body))
                     THEN attemptedRoleChange(body) ELSE @,
     !.first_name = IF Truthy(Get(body, "first_name"))
                      THEN Get(body, "first_name") ELSE @]

\* The id of the row the request ends up writing, 0 when it writes none:
\* the middleware answered res, and the handler runs only after next().
Written(req, res) ==
  IF res.next THEN UpdateUser([req EXCEPT !.body = res.body]).id ELSE 0

\* One request through a role middleware that answered res and, when it
\* called next(), through the handler.
Handle(req, res) ==
  LET id == Written(req, res)
      changes == id # 0 /\ UpdatedRow(users[id], res.body).user_type
                             # users[id].user_type
  IN /\ users' = IF id # 0
                   THEN [users EXCEPT ![id] = UpdatedRow(users[id], res.body)]
                   ELSE users
     /\ changedByAdmin' =
          IF changes /\ users[req.user.id].user_type = "admin"
            THEN changedByAdmin \cup {id} ELSE changedByAdmin
     /\ changedByAdminToken' =
          IF changes /\ req.user.user_type = "admin"
            THEN changedByAdminToken \cup {id} ELSE changedByAdminToken
     /\ UNCHANGED <<session, roleAtCreation>>

\* What the client gets back, with the request and the middleware's part.
PatchResult(op, req, res) ==
  [op |-> op, req |-> req, res |-> res,
   status |-> IF res.next
                THEN UpdateUser([req EXCEPT !.body = res.body]).status
                ELSE res.status]

\* The tokens clients hold, and no token at all.
Actors == {NoUser} \cup {session[i] : i \in Ids}

\* A route guarded by preventRoleModification.
PatchUser(req) ==
  /\ req.user \in Actors
  /\ Handle(req, preventRoleModification(req))

\* A route guarded by stripRoleFields.
PatchUserStrip(req) ==
  /\ req.user \in Actors
  /\ Handle(req, stripRoleFields(req))

\* ------------------------------------------------------------ inputs

\* Request bodies: the role keys, a profile field and body.userId; a key
\* is left out when its value is Undefined (NoId for userId).
BodyValue(k, user_type, userType, first_name) ==
  CASE k = "user_type" -> user_type
    [] k = "userType" -> userType
    [] k = "first_name" -> first_name

Body(user_type, userType, first_name, userId) ==
  LET keys == {k \in {"user_type", "userType", "first_name"} :
                 BodyValue(k, user_type, userType, first_name) # Undefined}
      f == [k \in keys |-> BodyValue(k, user_type, userType, first_name)]
  IN IF userId = NoId THEN f ELSE f @@ ("userId" :> userId)

Request(user, body, id, userId) ==
  [user |-> user, body |-> body, params |-> [id |-> id, userId |-> userId]]

\* The ids of the rows the table has room for, as a path carries them.
IdStrings == {NumberToString(i) : i \in UserIds}

\* The requests the system is driven with: a role for the own record or
\* for the row a path id names, or a new first_name instead.
SmallRequests ==
  {Request(u, Body(b[1], Undefined, b[2], NoId), t, NoId) :
     u \in Actors,
     b \in {<<r, Undefined>> : r \in validRoles} \cup {<<Undefined, "Bob">>},
     t \in {NoId} \cup IdStrings}

\* The column lists the suite's INSERT statements use, as
\* <<password, user_type, google_id, auth_provider>>:
\*   (email, first_name, last_name, user_type)                       :312
\*   (..., user_type, google_id, auth_provider) VALUES (.., 'google') :394
\*   (email, password, ..., user_type, auth_provider) (.., 'email')   :484
\*   (..., user_type, auth_provider)                                  :555
InsertShapes ==
       {<<NULL, r, NULL, NULL>> : r \in RoleStrings}
  \cup {<<NULL, r, g, "google">> : r \in roleGen, g \in GoogleIds}
  \cup {<<"hash", r, NULL, "email">> : r \in validRoles}
  \cup {<<NULL, "traveler", NULL, a>> : a \in ProviderStrings}

\* ------------------------------------------------------------ cart store

\* A line item of the cart table.
LineItem(id, owner, service_id, quantity) ==
  [id |-> id, owner |-> owner, service_id |-> service_id, quantity |-> quantity]

\* The positions of the line items of (owner, service_id) in items.
Lines(items, owner, service_id) ==
  {i \in 1..Len(items) :
     items[i].owner = owner /\ items[i].service_id = service_id}

\* What is left of a sequence when the elements at the positions gone are
\* taken out.
RECURSIVE Without(_, _)
Without(items, gone) ==
  IF items = <<>> THEN <<>>
  ELSE LET rest == Without(SubSeq(items, 1, Len(items) - 1), gone)
       IN IF Len(items) \in gone THEN rest ELSE Append(rest, items[Len(items)])

\* get(ownerId) (spec.md 4.4): the owner's line items, oldest first, as the
\* response carries them.
CartGet(items, owner) ==
  LET mine == Without(items, {i \in 1..Len(items) : items[i].owner # owner})
  IN [i \in 1..Len(mine) |->
        [id |-> mine[i].id, service_id |-> mine[i].service_id,
         quantity |-> mine[i].quantity]]

\* add without the look-up: every add inserts a line item.
CartAdd_AlwaysInsert(items, seq, owner, service_id, quantity) ==
  Append(items, LineItem(seq + 1, owner, service_id, quantity))

\* add(ownerId, serviceId, quantity) (spec.md 4.4), one atomic
\* read-modify-write (spec.md 5): the quantity of the line item of
\* (owner, service) grows by the amount given; without such a line item,
\* one is inserted under the next id.
CartAdd(items, seq, owner, service_id, quantity) ==
  IF Lines(items, owner, service_id) # {}
    THEN [i \in 1..Len(items) |->
            IF i \in Lines(items, owner, service_id)
              THEN [items[i] EXCEPT !.quantity = @ + quantity]
              ELSE items[i]]
    ELSE Append(items, LineItem(seq + 1, owner, service_id, quantity))

\* remove by id alone, whoever owns the line item.
CartRemove_AnyOwner(items, owner, id) ==
  Without(items, {i \in 1..Len(items) : items[i].id = id})

\* remove(ownerId, lineItemId) (spec.md 4.4): the line item goes when it
\* is the owner's; otherwise nothing happens.
CartRemove(items, owner, id) ==
  Without(items, {i \in 1..Len(items) :
                    items[i].id = id /\ items[i].owner = owner})

\* updateQuantity(ownerId, lineItemId, newQuantity) (spec.md 4.4): as
\* remove for newQuantity <= 0, otherwise the owner's line item takes the
\* new quantity.
CartUpdate(items, owner, id, quantity) ==
  IF quantity <= 0 THEN CartRemove(items, owner, id)
  ELSE [i \in 1..Len(items) |->
          IF items[i].id = id /\ items[i].owner = owner
            THEN [items[i] EXCEPT !.quantity = quantity]
            ELSE items[i]]

\* clear(ownerId) (spec.md 4.4)
CartClear(items, owner) ==
  Without(items, {i \in 1..Len(items) : items[i].owner = owner})

\* ------------------------------------------------------------ CartProvider

\* A request of cartAPI as it reaches the server: what is asked, and the
\* user the bearer token verifies to.
CartRequest(op, user, service_id, quantity, id) ==
  [op |-> op, user |-> user, service_id |-> service_id,
   quantity |-> quantity, id |-> id]

NoRequest == CartRequest("none", NoUser, Undefined, 0, 0)

\* The response of the server: {success, message, cartItems}.
CartResponse(success, message, items) ==
  [success |-> success, message |-> message, cartItems |-> items]

NoResponse == CartResponse(FALSE, "", <<>>)

\* What an await of cartAPI ends with when the request throws instead of
\* answering: the error, with its message.
Thrown(message) ==
  [success |-> FALSE, message |-> message, cartItems |-> <<>>,
   thrown |-> TRUE]

IsThrown(res) == "thrown" \in DOMAIN res

\* What a call returned: addToCart returns {success, message}, the other
\* functions return undefined.
Void == [undefined |-> TRUE]

Returned(success, message) == [success |-> success, message |-> message]

\* A call of a CartProvider function by the client of user `client`: the
\* function and its argument, how many services of the argument have been
\* sent (addMultipleToCart), where the call stands ("request": a request
\* is with the server; "response": the answer is back and the call has not
\* resumed; "done": it has returned), the request, the response and the
\* value returned.
Call(client, op, arg, sent, pc, req, res, result) ==
  [client |-> client, op |-> op, arg |-> arg, sent |-> sent, pc |-> pc,
   req |-> req, res |-> res, result |-> result]

\* The token test left out: every client counts as signed in.
HasToken_Always(client) == TRUE

\* JSON.parse(localStorage.getItem('isafari_user') || '{}').token
\* (CartContext.jsx:27, 60, 113, 132, 158, 179): the token the client has.
HasToken(client) == session[client] # NoUser

\* service.id || service.serviceId (CartContext.jsx:68)
ServiceId(service) == Or(Get(service, "id"), Get(service, "serviceId"))

\* The quantity sent for every service, as addToCart sends it.
RequestedQuantity_One(service) == 1

\* service.quantity || 1 (CartContext.jsx:122)
RequestedQuantity(service) ==
  IF "quantity" \in DOMAIN service /\ service.quantity # 0
    THEN service.quantity ELSE 1

\* The test of line 153 without the zero.
NonPositive_Strict(newQuantity) == newQuantity < 0

\* newQuantity <= 0 (CartContext.jsx:153)
NonPositive(newQuantity) == newQuantity <= 0

\* The call is made: its code up to the first await has run, leaving the
\* call as given and the client's cartItems as given.
Begin(call, items) ==
  /\ Len(calls) < MaxCalls
  /\ Cardinality({k \in 1..Len(calls) : calls[k].pc # "done"}) < MaxInFlight
  /\ calls' = Append(calls, call)
  /\ cartItems' = [cartItems EXCEPT ![call.client] = items]
  /\ UNCHANGED <<cart, cartSeq, deleted, users, session, roleAtCreation,
                 changedByAdmin, changedByAdminToken, last>>

\* A call that returned before any await.
Finished(client, op, arg, result) ==
  Call(client, op, arg, 0, "done", NoRequest, NoResponse, result)

\* A call waiting for the answer to its first request.
Waiting(client, op, arg, sent, req) ==
  Call(client, op, arg, sent, "request", req, NoResponse, Void)

\* loadCartFromDatabase (CartContext.jsx:24-56) called on mount or by the
\* application: without a token cartItems becomes [] and nothing is sent.
loadCartFromDatabase(client) ==
  IF ~HasToken(client)
    THEN Begin(Finished(client, "load", <<>>, Void), <<>>)
    ELSE Begin(Waiting(client, "load", <<>>, 0,
                       CartRequest("get", session[client], Undefined, 0, 0)),
               cartItems[client])

\* addToCart (CartContext.jsx:58-109) up to `await cartAPI.addToCart(
\* serviceId, 1)`: both errors thrown before it are caught at line 100 and
\* returned as {success: false, message}.
addToCart(client, service) ==
  IF ~HasToken(client)
    THEN Begin(Finished(client, "addToCart", service,
                        Returned(FALSE, "Please login to add items to cart")),
               cartItems[client])
  ELSE IF ~Truthy(ServiceId(service))
    THEN Begin(Finished(client, "addToCart", service,
                        Returned(FALSE, "Invalid service - missing ID")),
               cartItems[client])
  ELSE Begin(Waiting(client, "addToCart", service, 0,
                     CartRequest("add", session[client], ServiceId(service), 1, 0)),
             cartItems[client])

\* addMultipleToCart (CartContext.jsx:111-128) up to the first await of
\* its loop; services is not empty.
addMultipleToCart(client, services) ==
  IF ~HasToken(client)
    THEN Begin(Finished(client, "addMultipleToCart", services, Void),
               cartItems[client])
    ELSE Begin(Waiting(client, "addMultipleToCart", services, 1,
                       CartRequest("add", session[client], services[1].id,
                                   RequestedQuantity(services[1]), 0)),
               cartItems[client])

\* removeFromCart (CartContext.jsx:130-149) up to its await, made under
\* the name op (updateQuantity calls it at line 154).
removeFromCartAs(op, arg, client, cartItemId) ==
  IF ~HasToken(client)
    THEN Begin(Finished(client, op, arg, Void), cartItems[client])
    ELSE Begin(Waiting(client, op, arg, 0,
                       CartRequest("remove", session[client], Undefined, 0,
                                   cartItemId)),
               cartItems[client])

removeFromCart(client, cartItemId) ==
  removeFromCartAs("removeFromCart", <<cartItemId>>, client, cartItemId)

\* updateQuantity (CartContext.jsx:151-175) up to its first await.
updateQuantity(client, cartItemId, newQuantity) ==
  IF NonPositive(newQuantity)
    THEN removeFromCartAs("updateQuantity", <<cartItemId, newQuantity>>,
                          client, cartItemId)
  ELSE IF ~HasToken(client)
    THEN Begin(Finished(client, "updateQuantity", <<cartItemId, newQuantity>>,
                        Void),
               cartItems[client])
  ELSE Begin(Waiting(client, "updateQuantity", <<cartItemId, newQuantity>>, 0,
                     CartRequest("update", session[client], Undefined,
                                 newQuantity, cartItemId)),
             cartItems[client])

\* clearCart (CartContext.jsx:177-194) up to its await.
clearCart(client) ==
  IF ~HasToken(client)
    THEN Begin(Finished(client, "clearCart", <<>>, Void), cartItems[client])
    ELSE Begin(Waiting(client, "clearCart", <<>>, 0,
                       CartRequest("clear", session[client], Undefined, 0, 0)),
               cartItems[client])

\* localStorage loses 'isafari_user' (CartContext.jsx:27 reads '{}' from
\* then on) while no call of the client is awaiting: the user has signed
\* out.  What CartProvider holds stays as it is.
SignOut(client) ==
  /\ HasToken(client)
  /\ \A k \in 1..Len(calls) :
       calls[k].client = client => calls[k].pc = "done"
  /\ session' = [session EXCEPT ![client] = NoUser]
  /\ UNCHANGED <<users, roleAtCreation, changedByAdmin, changedByAdminToken,
                 last, cartVars>>

\* The store after the server has handled a request for the user its
\* token verifies to (spec.md 4.4, 6).
Handled(items, seq, req) ==
  CASE req.op = "add" ->
         CartAdd(items, seq, req.user.id, req.service_id, req.quantity)
    [] req.op = "remove" -> CartRemove(items, req.user.id, req.id)
    [] req.op = "update" ->
         CartUpdate(items, req.user.id, req.id, req.quantity)
    [] req.op = "clear" -> CartClear(items, req.user.id)
    [] OTHER -> items

\* The server handles the request of call k in one step and answers it; a
\* response to a get carries the owner's line items.
Serve(k) ==
  /\ k \in 1..Len(calls)
  /\ calls[k].pc = "request"
  /\ LET req == calls[k].req
         after == Handled(cart, cartSeq, req)
     IN /\ cart' = after
        /\ cartSeq' = IF Len(after) > Len(cart) THEN cartSeq + 1 ELSE cartSeq
        /\ deleted' = deleted \cup ({cart[i].id : i \in 1..Len(cart)} \
                                 {after[i].id : i \in 1..Len(after)})
        /\ calls' = [calls EXCEPT ![k].pc = "response",
                       ![k].res = CartResponse(TRUE, "",
                                    IF req.op = "get"
                                      THEN CartGet(after, req.user.id)
                                      ELSE <<>>)]
  /\ UNCHANGED <<cartItems, users, session, roleAtCreation, changedByAdmin,
                 changedByAdminToken, last>>

\* The server refuses the request of call k: it answers success false,
\* with a message or without, and the cart table stays as it is.
Refuse(k) ==
  /\ k \in 1..Len(calls)
  /\ calls[k].pc = "request"
  /\ \E message \in {"", "Unauthorized"} :
       calls' = [calls EXCEPT ![k].pc = "response",
                   ![k].res = CartResponse(FALSE, message, <<>>)]
  /\ UNCHANGED <<cart, cartSeq, deleted, cartItems, users, session,
                 roleAtCreation, changedByAdmin, changedByAdminToken, last>>

\* The request of call k throws before it reaches the server: the await
\* of cartAPI rejects with an Error, whose message may be empty.
Throw(k) ==
  /\ k \in 1..Len(calls)
  /\ calls[k].pc = "request"
  /\ \E message \in {"", "Network Error"} :
       calls' = [calls EXCEPT ![k].pc = "response", ![k].res = Thrown(message)]
  /\ UNCHANGED <<cart, cartSeq, deleted, cartItems, users, session,
                 roleAtCreation, changedByAdmin, changedByAdminToken, last>>

\* `await loadCartFromDatabase()` inside a call (CartContext.jsx:90, 124,
\* 142, 168): the call asks for the cart, or, without a token, empties
\* cartItems and goes on to return result.
Reload(call, result) ==
  IF ~HasToken(call.client)
    THEN [call |-> [call EXCEPT !.pc = "done", !.result = result],
          items |-> <<>>]
    ELSE [call |-> [call EXCEPT !.pc = "request",
                      !.req = CartRequest("get", session[call.client],
                                          Undefined, 0, 0)],
          items |-> cartItems[call.client]]

\* addToCart reporting a failure after the add was accepted.
Added_Refused == Returned(FALSE, "Failed to add to cart")

\* What addToCart returns once the cart is reloaded (CartContext.jsx:98).
Added == Returned(TRUE, "Item added to cart")

\* The call and the client's cartItems after the call has resumed from
\* its await with the response in hand.
Resumed(call) ==
  LET same == cartItems[call.client]
      return(result) ==
        [call |-> [call EXCEPT !.pc = "done", !.result = result],
         items |-> same]
  IN CASE call.req.op = "get" ->
            \* lines 36-44, then back in the caller
            [call |-> [call EXCEPT !.pc = "done",
                         !.result = IF call.op = "addToCart" THEN Added
                                    ELSE Void],
             items |-> IF call.res.success THEN call.res.cartItems ELSE <<>>]
       [] call.req.op = "add" /\ call.op = "addToCart" /\ IsThrown(call.res) ->
            \* lines 100-107
            return(Returned(FALSE, IF call.res.message # ""
                                     THEN call.res.message
                                     ELSE "Error adding to cart. Please try again."))
       [] call.req.op = "add" /\ call.op = "addToCart" ->
            \* lines 87-99
            IF call.res.success THEN Reload(call, Added)
            ELSE return(Returned(FALSE, IF call.res.message # ""
                                          THEN call.res.message
                                          ELSE "Failed to add to cart"))
       [] call.req.op = "add" /\ call.op = "addMultipleToCart" ->
            \* lines 121-124: the next service, or the reload; lines
            \* 125-127 when the request threw
            IF IsThrown(call.res) THEN return(Void)
            ELSE IF call.sent < Len(call.arg)
              THEN [call |-> [call EXCEPT !.pc = "request",
                                !.sent = @ + 1,
                                !.req = CartRequest("add", call.req.user,
                                          call.arg[call.sent + 1].id,
                                          RequestedQuantity(call.arg[call.sent + 1]),
                                          0)],
                    items |-> same]
              ELSE Reload(call, Void)
       [] call.req.op \in {"remove", "update"} ->
            \* lines 139-143 and 165-169
            IF call.res.success THEN Reload(call, Void) ELSE return(Void)
       [] OTHER ->
            \* clearCart, lines 186-188
            [call |-> [call EXCEPT !.pc = "done"],
             items |-> IF call.res.success THEN <<>> ELSE same]

\* Call k resumes from its await.
Resume(k) ==
  /\ k \in 1..Len(calls)
  /\ calls[k].pc = "response"
  /\ LET next == Resumed(calls[k])
     IN /\ calls' = [calls EXCEPT ![k] = next.call]
        /\ cartItems' = [cartItems EXCEPT ![calls[k].client] = next.items]
  /\ UNCHANGED <<cart, cartSeq, deleted, users, session, roleAtCreation,
                 changedByAdmin, changedByAdminToken, last>>

\* ------------------------------------------------------------ specifications

\* The rows the system starts from: no password, no google_id, the
\* default auth_provider (the column list of CartContext.jsx:312).
SeedShapes == {<<NULL, r, NULL, NULL>> : r \in validRoles}

\* The whole system: accounts are created, sign in, and send role-gated
\* requests.
Next ==
  \/ \E email \in Emails, v \in SeedShapes :
       InsertUser(email, v[1], v[2], v[3], v[4]) /\ UNCHANGED <<last, cartVars>>
  \/ \E id \in UserIds : UpdateProfile(id, "Bob") /\ UNCHANGED <<last, cartVars>>
  \/ \E email \in Emails, role \in roleGen \cup {"admin"} :
       Register(email, role) /\ UNCHANGED <<last, cartVars>>
  \/ \E email \in Emails, passwordMatches \in BOOLEAN :
       Login(email, passwordMatches) /\ UNCHANGED <<last, cartVars>>
  \/ \E role \in {Undefined, "traveler"} :
       OAuthSignIn("g1", role) /\ UNCHANGED <<last, cartVars>>
  \/ \E i \in UserIds : Expire(i) /\ UNCHANGED <<last, cartVars>>
  \/ \E req \in SmallRequests : PatchUser(req) /\ UNCHANGED <<last, cartVars>>
  \/ \E req \in SmallRequests : PatchUserStrip(req) /\ UNCHANGED <<last, cartVars>>

Spec == Init /\ [][Next]_vars

\* The addresses clients type at login: as stored, in capitals, with white
\* space around them, and one no account has.
TypedEmails ==
  {<<"a", "@", "t", "e", "s", "t", ".", "c", "o", "m">>,
   <<" ", "A", "@", "T", "e", "s", "t", ".", "c", "o", "m", " ">>,
   <<"B", "@", "T", "E", "S", "T", ".", "C", "O", "M">>,
   <<"b", "@", "t", "e", "s", "t", ".", "c", "o", "m", " ", " ">>,
   <<"x", "@", "t", "e", "s", "t", ".", "c", "o", "m">>}

\* The users table with the suite's INSERT statements in full and the
\* account resolver on top of it. A run is observed at one operation of
\* its choice: last takes what that operation was asked and answered, and
\* the run ends there; the operations before it leave last alone.
NextStore ==
  \/ /\ last.op = "none" /\ UNCHANGED cartVars
     /\ \E email \in Emails, v \in InsertShapes :
          /\ InsertUser(email, v[1], v[2], v[3], v[4])
          /\ last' \in {last, InsertResult(email, v[1], v[2], v[3], v[4])}
  \/ /\ last.op = "none" /\ UNCHANGED cartVars
     /\ \E email \in Emails, role \in RoleStrings :
          /\ Register(email, role)
          /\ last' \in {last, RegisterResult(email, role)}
  \/ /\ last.op = "none" /\ UNCHANGED cartVars
     /\ \E chars \in TypedEmails, passwordMatches \in BOOLEAN :
          /\ PostLogin(chars, passwordMatches)
          /\ last' \in {last, PostLoginResult(chars, passwordMatches)}
  \/ /\ last.op = "none" /\ UNCHANGED cartVars
     /\ \E g \in GoogleIds, role \in RoleStrings \cup {Undefined} :
          /\ OAuthSignIn(g, role)
          /\ last' \in {last, OAuthResult(g, role)}

SpecStore == Init /\ [][NextStore]_vars

\* Where a request names its target: <<params.id, params.userId,
\* body.userId>>. The path ids are the ids of rows, an id followed by a
\* letter and a string without digits; two sources are set at once where
\* line 39's order of preference decides.
TargetForms ==
       {<<t, NoId, NoId>> : t \in {NoId, <<"1", "x">>, <<"x">>} \cup IdStrings}
  \cup {<<NoId, t, NoId>> : t \in IdStrings}
  \cup {<<NoId, NoId, t>> : t \in IdStrings}
  \cup {<<<<"1">>, NoId, <<"2">>>>, <<NoId, <<"2">>, <<"1">>>>}

\* The role keys of a request, <<user_type, userType>>: each spelling
\* alone, and both at once where line 16's || decides.
RoleForms ==
       {<<r, Undefined>> : r \in RoleStrings \cup {Undefined}}
  \cup {<<Undefined, "admin">>, <<Undefined, "">>, <<"", "admin">>,
        <<"traveler", "admin">>}

\* Every request the role middleware is tried on.
PolicyRequests ==
       {Request(u, Body(r[1], r[2], n, t[3]), t[1], t[2]) :
          u \in Actors, r \in RoleForms, n \in {Undefined, "Bob"},
          t \in TargetForms}
  \cup {Request(u, NoBody, t, NoId) : u \in Actors, t \in {NoId} \cup IdStrings}

\* The role middleware alone, on one request to a table in which every
\* row holds any role; the client of user 1 holds no token or a token with
\* any role (the row's role may have changed since the token was issued).
InitPolicy ==
  /\ \E roles \in [UserIds -> validRoles], token \in validRoles \cup {Undefined} :
       /\ users = [i \in UserIds |->
                     Row(i, EmailList[i], "hash", "Ann", roles[i], NULL, "email")]
       /\ roleAtCreation = [i \in UserIds |-> roles[i]]
       /\ session = [i \in UserIds |->
                       IF i # 1 \/ token = Undefined THEN NoUser
                       ELSE [id |-> i, email |-> EmailList[i],
                             user_type |-> token]]
  /\ changedByAdmin = {}
  /\ changedByAdminToken = {}
  /\ last = [op |-> "none"]
  /\ InitCartVars

NextPolicy ==
  \/ /\ last.op = "none" /\ UNCHANGED cartVars
     /\ \E req \in PolicyRequests :
          /\ PatchUser(req)
          /\ last' = PatchResult("patch", req, preventRoleModification(req))
  \/ /\ last.op = "none" /\ UNCHANGED cartVars
     /\ \E req \in PolicyRequests :
          /\ PatchUserStrip(req)
          /\ last' = PatchResult("strip", req, stripRoleFields(req))

SpecPolicy == InitPolicy /\ [][NextPolicy]_vars

\* The services the first client is given to add by addToCart: under id,
\* under serviceId, and without either; the other clients add S1.
ServiceForms(c) ==
  IF c = 1 THEN {[id |-> "S1"], [serviceId |-> "S2"], [name |-> "Safari"]}
  ELSE {[id |-> "S1"]}

\* The lists addMultipleToCart is given: one service with its quantity
\* absent, zero or negative, and two services.
ServiceLists ==
  {<<[id |-> "S1"]>>} \cup
  {<<[id |-> "S1", quantity |-> q]>> : q \in {-1, 0}} \cup
  {<<[id |-> "S1", quantity |-> 2], [id |-> "S2"]>>}

\* The line item ids and the quantities a client passes.
ItemIds == 1..2

Quantities == {-1, 0, 2}

\* The first client calls every function; the other clients add and load.
Active == {1}

\* The carts: accounts exist, every client is signed in or not, no cart
\* has a line item and no client holds one.
InitCart ==
  /\ users = [i \in UserIds |->
                Row(i, EmailList[i], "hash", "Ann", "traveler", NULL, "email")]
  /\ roleAtCreation = [i \in UserIds |-> "traveler"]
  /\ session \in [UserIds -> {NoUser} \cup {Claims(users[i]) : i \in UserIds}]
  /\ \A i \in UserIds : session[i] \in {NoUser, Claims(users[i])}
  /\ changedByAdmin = {}
  /\ changedByAdminToken = {}
  /\ last = [op |-> "none"]
  /\ InitCartVars

NextCart ==
  \/ \E c \in UserIds : loadCartFromDatabase(c)
  \/ \E c \in UserIds : \E service \in ServiceForms(c) : addToCart(c, service)
  \/ \E c \in Active, services \in ServiceLists : addMultipleToCart(c, services)
  \/ \E c \in Active, id \in ItemIds : removeFromCart(c, id)
  \/ \E c \in Active, id \in ItemIds, n \in Quantities : updateQuantity(c, id, n)
  \/ \E c \in Active : clearCart(c)
  \/ \E c \in Active : SignOut(c)
  \/ \E k \in 1..MaxCalls : Serve(k)
  \/ \E k \in 1..MaxCalls : Resume(k)

SpecCart == InitCart /\ [][NextCart]_vars

\* The carts when requests may also be refused or throw: the first client
\* loads, adds and removes, and its user may sign out.
NextCartFaults ==
  \/ \E c \in Active : loadCartFromDatabase(c)
  \/ \E c \in Active : \E service \in ServiceForms(c) : addToCart(c, service)
  \/ \E c \in Active : removeFromCart(c, 1)
  \/ \E c \in Active : SignOut(c)
  \/ \E k \in 1..MaxCalls : Serve(k)
  \/ \E k \in 1..MaxCalls : Resume(k)
  \/ \E k \in 1..MaxCalls : Refuse(k)
  \/ \E k \in 1..MaxCalls : Throw(k)

SpecCartFaults == InitCart /\ [][NextCartFaults]_vars

\* The tokens of a users table keyed by UUID: the claims with the UUID
\* the row is keyed by.
KeyedClaims(i, role) ==
  [id |-> i, uuid |-> Uuid(i), email |-> EmailList[i], user_type |-> role]

\* Where a request to such a table names its target: nowhere, or the UUID
\* of a row in the path or in body.userId.
KeyedTargets ==
       {<<NoId, NoId>>}
  \cup {<<Uuid(i), NoId>> : i \in UserIds}
  \cup {<<NoId, Uuid(i)>> : i \in UserIds}

KeyedRequests ==
  {Request(u, Body(r, Undefined, n, t[2]), t[1], NoId) :
     u \in Actors, r \in validRoles \cup {Undefined}, n \in {Undefined, "Bob"},
     t \in KeyedTargets}

\* The role middleware and the handler behind it on one request to a
\* users table keyed by UUID in which every row holds any role; the client
\* of user 1 holds no token or a token with any role.
InitKeys ==
  /\ \E roles \in [UserIds -> validRoles], token \in validRoles \cup {Undefined} :
       /\ users = [i \in UserIds |->
                     Row(i, EmailList[i], "hash", "Ann", roles[i], NULL, "email")]
       /\ roleAtCreation = [i \in UserIds |-> roles[i]]
       /\ session = [i \in UserIds |->
                       IF i # 1 \/ token = Undefined THEN NoUser
                       ELSE KeyedClaims(i, token)]
  /\ changedByAdmin = {}
  /\ changedByAdminToken = {}
  /\ last = [op |-> "none"]
  /\ InitCartVars

NextKeys ==
  /\ last.op = "none" /\ UNCHANGED cartVars
  /\ \E req \in KeyedRequests :
       /\ PatchUser(req)
       /\ last' = PatchResult("patch", req, preventRoleModification(req))

SpecKeys == InitKeys /\ [][NextKeys]_vars

\* ------------------------------------------------------------ migration

\* ADD COLUMN IF NOT EXISTS auth_provider ... DEFAULT 'email' (part_003:5-7):
\* where the table has no such column every row gets the default.
AddColumn(rows, hasColumn) ==
  IF hasColumn THEN rows
  ELSE [i \in 1..Len(rows) |-> [rows[i] EXCEPT !.auth_provider = "email"]]

\* part_003:10-12
BackfillGoogle(rows) ==
  [i \in 1..Len(rows) |->
     IF rows[i].google_id # NULL /\ rows[i].password = NULL
       THEN [rows[i] EXCEPT !.auth_provider = "google"] ELSE rows[i]]

\* The migration without its second UPDATE.
BackfillBoth_Missing(rows) == rows

\* part_003:15-17
BackfillBoth(rows) ==
  [i \in 1..Len(rows) |->
     IF rows[i].google_id # NULL /\ rows[i].password # NULL
       THEN [rows[i] EXCEPT !.auth_provider = "both"] ELSE rows[i]]

\* part_003:23-37: the constraint is added when none of that name exists,
\* and adding it fails when a row holds a role outside the three; only
\* duplicate_object is caught.
ConstraintFails(rows, hasConstraint) ==
  /\ ~hasConstraint
  /\ \E i \in 1..Len(rows) : ~users_user_type_check(rows[i].user_type)

\* The rows once every statement of the migration has run.
Migrated(rows, hasColumn) ==
  BackfillBoth(BackfillGoogle(AddColumn(rows, hasColumn)))

\* One run of the migration (part_003:1-42). last holds what is known of
\* the schema and of the runs so far. A run in which adding the constraint
\* fails either leaves what its earlier statements wrote or, run in one
\* transaction, nothing at all.
Migrate ==
  /\ last.runs < MaxRuns
  /\ LET after == Migrated(users, last.column)
     IN IF ConstraintFails(after, last.constraint)
          THEN \E kept \in BOOLEAN :
                 /\ users' = IF kept THEN after ELSE users
                 /\ last' = [last EXCEPT !.runs = @ + 1, !.failed = TRUE,
                               !.column = @ \/ kept]
          ELSE /\ users' = after
               /\ last' = [last EXCEPT !.runs = @ + 1, !.failed = FALSE,
                             !.column = TRUE, !.constraint = TRUE]
  /\ UNCHANGED <<session, roleAtCreation, changedByAdmin, changedByAdminToken,
                 cartVars>>

\* The values auth_provider may hold in a table from before the
\* migration: none where the table has no such column.
OldProviders(hasColumn) ==
  IF hasColumn THEN {NULL} \cup ProviderStrings ELSE {Undefined}

\* Any users table from before the migration, with the auth_provider
\* column or without it, with users_user_type_check or without it: every
\* row with or without a Google identity, with or without a password
\* hash, with a role of the three or, where the table has no constraint,
\* another one.
InitMigration ==
  /\ \E n \in 0..MaxUsers, hasColumn \in BOOLEAN, hasConstraint \in BOOLEAN :
       \E pw \in [1..n -> {NULL, "hash"}], g \in [1..n -> {NULL, "g1"}],
          role \in [1..n -> IF hasConstraint THEN {"traveler"}
                            ELSE {"traveler", "guest"}],
          a \in [1..n -> OldProviders(hasColumn)] :
         /\ users = [i \in 1..n |->
                       Row(i, EmailList[i], pw[i], "Ann", role[i], g[i], a[i])]
         /\ roleAtCreation = [i \in 1..n |-> role[i]]
         /\ last = [op |-> "migration", column |-> hasColumn,
                    constraint |-> hasConstraint, runs |-> 0, failed |-> FALSE]
  /\ session = [i \in UserIds |-> NoUser]
  /\ changedByAdmin = {}
  /\ changedByAdminToken = {}
  /\ InitCartVars

NextMigration == Migrate

SpecMigration == InitMigration /\ [][NextMigration]_vars

\* ------------------------------------------------------------ role immutability

C6_AdminAllowed ==
  (/\ last.op \in {"patch", "strip"}
   /\ last.req.user # NoUser
   /\ last.req.user.user_type = "admin"
   /\ last.req.body # NoBody
   /\ Truthy(attemptedRoleChange(last.req.body)))
  => (last.res.next /\ last.res.body = last.req.body)

\* An admin sent a role for another record through stripRoleFields, and
\* the role key arrived.
C6_Witness ==
  /\ last.op = "strip"
  /\ last.req.user # NoUser
  /\ last.req.user.user_type = "admin"
  /\ last.req.body # NoBody
  /\ Get(last.req.body, "user_type") = "service_provider"
  /\ last.req.params.id = <<"2">>
  /\ Get(last.res.body, "user_type") = "service_provider"

\* C7: stripRoleFields always calls next(); for an actor that is not admin
\* or is absent, the body it passes on has neither user_type nor userType
\* and every other key with the value it came with.
C7_StripNeverRejects ==
  last.op = "strip" =>
    /\ last.res.next
    /\ (~IsAdmin(last.req.user) /\ last.req.body # NoBody) =>
         /\ DOMAIN last.res.body = (DOMAIN last.req.body) \ RoleKeys
         /\ \A k \in DOMAIN last.res.body : last.res.body[k] = last.req.body[k]
    /\ last.req.body = NoBody => last.res.body = NoBody

\* A non-admin's body with both role keys, a name and a userId went
\* through stripRoleFields.
C7_Witness ==
  /\ last.op = "strip"
  /\ last.req.user # NoUser
  /\ last.req.user.user_type = "traveler"
  /\ last.req.body # NoBody
  /\ DOMAIN last.req.body = {"user_type", "userType", "first_name", "userId"}
  /\ DOMAIN last.res.body = {"first_name", "userId"}

\* ------------------------------------------------------------ users table

\* C8: an INSERT with a role outside {traveler, service_provider, admin}
\* fails on the constraint and stores nothing; an INSERT with a role of
\* {traveler, service_provider}, an email no row has and an auth_provider
\* the column accepts succeeds and stores the role as given; and every row
\* of the table has a role in {traveler, service_provider, admin}.
C8_RoleConstraint ==
  [][/\ (last'.op = "insert" /\ last'.row.user_type \notin validRoles)
          => (~last'.ok /\ users' = users)
     /\ (/\ last'.op = "insert"
         /\ last'.row.user_type \in roleGen
         /\ ~EmailTaken(last'.row.email)
         /\ last'.row.auth_provider \in authProviderGen)
          => /\ last'.ok
             /\ Len(users') = Len(users) + 1
             /\ SubSeq(users', 1, Len(users)) = users
             /\ users'[Len(users')].email = last'.row.email
             /\ users'[Len(users')].user_type = last'.row.user_type
     /\ \A i \in 1..Len(users') : users'[i].user_type \in validRoles]_vars

\* An INSERT with the role superuser was refused by a table that holds a
\* row.
C8_Witness ==
  /\ last.op = "insert"
  /\ last.row.user_type = "superuser"
  /\ ~last.ok
  /\ Len(users) >= 1

\* C9 as stated: every row has auth_provider in {email, google, both}, a
\* row with auth_provider = google has a google_id, and a row with
\* auth_provider = both has a password hash and a google_id.
C9_AuthProviderCoupling ==
  \A i \in Ids :
    /\ users[i].auth_provider \in {"email", "google", "both"}
    /\ users[i].auth_provider = "google" => users[i].google_id # NULL
    /\ users[i].auth_provider = "both" =>
         (users[i].password # NULL /\ users[i].google_id # NULL)

\* C9 amended: every row has auth_provider in {email, google, both}, and
\* an INSERT with another auth_provider is refused by the table and
\* stores nothing.
C9_AuthProviderValues ==
  [][/\ (last'.op = "insert" /\ last'.row.auth_provider \notin authProviderGen)
          => (~last'.ok /\ users' = users)
     /\ \A i \in 1..Len(users') : users'[i].auth_provider \in authProviderGen]_vars

\* An INSERT with auth_provider = facebook was refused.
C9_Witness ==
  /\ last.op = "insert"
  /\ last.row.auth_provider = "facebook"
  /\ ~last.ok
  /\ \E i \in Ids : users[i].auth_provider = "both"

\* C10: a Google sign-in for a google_id some row has answers with a row
\* that has this google_id and with the role that row holds, whatever
\* role the request carries, leaves the table as it was and answers
\* needsRoleSelection = false.
C10_ReturningUser ==
  [][(/\ last'.op = "oauth"
      /\ \E i \in Ids : users[i].google_id = last'.g)
     => (/\ last'.id \in Ids
         /\ users[last'.id].google_id = last'.g
         /\ last'.user_type = users[last'.id].user_type
         /\ users' = users
         /\ last'.needsRoleSelection = FALSE)]_vars

\* A sign-in that carried another role than the one stored for its
\* google_id, for a row that has a password as well.
C10_Witness ==
  /\ last.op = "oauth"
  /\ last.case = "returning"
  /\ last.role \in roleGen
  /\ last.role # last.user_type
  /\ users[last.id].auth_provider = "both"

\* ------------------------------------------------------------ account resolver

\* C11: a Google sign-in for a google_id no row has, whose email belongs to
\* a row without google_id, answers with that row, sets its auth_provider
\* to both and its google_id to the new id, leaves its id, email, role,
\* password hash and first_name as they were, leaves every other row
\* alone and creates no row.
C11_LinkPreservesAccount ==
  [][\A i \in Ids :
       (/\ last'.op = "oauth"
        /\ \A j \in Ids : users[j].google_id # last'.g
        /\ users[i].email = GoogleEmail(last'.g)
        /\ users[i].google_id = NULL)
       => (/\ last'.id = i
           /\ Len(users') = Len(users)
           /\ users'[i] = [users[i] EXCEPT !.google_id = last'.g,
                                            !.auth_provider = "both"]
           /\ \A j \in Ids \ {i} : users'[j] = users[j])]_vars

\* A Google identity was linked to an account with a password, in a table
\* with a second row.
C11_Witness ==
  /\ last.op = "oauth"
  /\ last.case = "link"
  /\ Len(users) = 2
  /\ users[last.id].password = "hash"
  /\ users[last.id].google_id = last.g
  /\ users[last.id].auth_provider = "both"

\* C12: a Google sign-in for a google_id no row has and an email no row
\* has, sent without a role, answers needsRoleSelection = true and leaves
\* the table as it was; such a sign-in adds a row only when it carries
\* traveler or service_provider, and the row has that role; and no Google
\* sign-in changes the role of a row the table already has.
C12_RoleDecidedOnce ==
  [][last'.op = "oauth" =>
       /\ (/\ \A j \in Ids : users[j].google_id # last'.g
           /\ \A j \in Ids : users[j].email # GoogleEmail(last'.g))
          => /\ last'.role = Undefined
                  => (last'.needsRoleSelection = TRUE /\ users' = users)
             /\ users' # users
                  => /\ last'.role \in {"traveler", "service_provider"}
                     /\ last'.needsRoleSelection = FALSE
                     /\ Len(users') = Len(users) + 1
                     /\ SubSeq(users', 1, Len(users)) = users
                     /\ users'[Len(users')].user_type = last'.role
       /\ Len(users') >= Len(users)
       /\ \A i \in Ids : users'[i].user_type = users[i].user_type]_vars

\* A first sign-in without a role was asked to choose one, in a table that
\* holds another account.
C12_Witness ==
  /\ last.op = "oauth"
  /\ last.role = Undefined
  /\ last.needsRoleSelection = TRUE
  /\ Len(users) = 1
  /\ users[1].google_id # last.g
  /\ users[1].email # GoogleEmail(last.g)

\* C13: an INSERT of a Google user with a role of {traveler,
\* service_provider}, a google_id and auth_provider = google that the
\* table accepts, and a first Google sign-in that creates the account,
\* store a row with the role chosen, the google_id given and
\* auth_provider = google.
C13_GoogleCreation ==
  [][/\ (/\ last'.op = "insert"
         /\ last'.values[2] \in {"traveler", "service_provider"}
         /\ last'.values[3] \in GoogleIds
         /\ last'.values[4] = "google"
         /\ last'.ok)
        => /\ Len(users') = Len(users) + 1
           /\ users'[Len(users')].user_type = last'.values[2]
           /\ users'[Len(users')].google_id = last'.values[3]
           /\ users'[Len(users')].auth_provider = "google"
     /\ (last'.op = "oauth" /\ Len(users') > Len(users))
        => /\ users'[Len(users')].user_type = last'.role
           /\ last'.role \in {"traveler", "service_provider"}
           /\ users'[Len(users')].google_id = last'.g
           /\ users'[Len(users')].auth_provider = "google"]_vars

\* A service provider's Google account was inserted as the second row.
C13_Witness ==
  /\ last.op = "insert"
  /\ last.ok
  /\ last.values = <<NULL, "service_provider", "g2", "google">>
  /\ Len(users) = 2
  /\ users[2].google_id = "g2"

\* ------------------------------------------------------------ tokens

\* C14: the claims a client's token verifies to change only when a token
\* is issued, and are then the id, the email and the role of the user's
\* row at that moment, or when the token expires; a step that changes the
\* stored role of a user leaves the claims of that user's token as they
\* were issued.
C14_TokenSnapshot ==
  [][\A i \in UserIds :
       /\ session'[i] # session[i]
            => \/ session'[i] = NoUser
               \/ /\ i \in 1..Len(users')
                  /\ session'[i].id = users'[i].id
                  /\ session'[i].email = users'[i].email
                  /\ session'[i].user_type = users'[i].user_type
       /\ (i \in Ids /\ users'[i].user_type # users[i].user_type)
            => session'[i] = session[i]]_vars

\* A token still says traveler for a user whose row an admin has changed
\* to service_provider.
C14_Witness ==
  \E i \in Ids :
    /\ session[i] # NoUser
    /\ session[i].user_type = "traveler"
    /\ users[i].user_type = "service_provider"
    /\ i \in changedByAdminToken


\* ------------------------------------------------------------ cart

\* The add requests the server handles in this step.
AddsHandled ==
  {k \in 1..Len(calls) :
     /\ calls[k].pc = "request" /\ calls'[k].pc = "response"
     /\ calls[k].req.op = "add"}

\* The two calls of the scenario of spec.md 8: the first client adds S1
\* (quantity 1), then S1 with quantity 2 together with S2, both while
\* signed in, and nothing else is called.
AddedS1Twice ==
  /\ Len(calls) = 2
  /\ \A k \in 1..2 : calls[k].client = 1 /\ calls[k].pc = "done"
  /\ calls[1].op = "addToCart" /\ calls[1].arg = [id |-> "S1"]
  /\ calls[1].result = Added
  /\ calls[2].op = "addMultipleToCart"
  /\ calls[2].arg = <<[id |-> "S1", quantity |-> 2], [id |-> "S2"]>>
  /\ calls[2].req.op = "get"

\* C15: an add of (owner, service, q) raises the quantity of the line
\* item of (owner, service) by q and creates no line item when there is
\* one, and otherwise inserts one line item with quantity q, changing no
\* other line item either way; there is never more than one line item for
\* an (owner, service); and after S1 is added with quantity 1 and then
\* with quantity 2 to an empty cart there is exactly one S1 line item,
\* with quantity 3.
C15_AddUpserts ==
  /\ [][\A k \in AddsHandled :
          LET req == calls[k].req
              at == Lines(cart, req.user.id, req.service_id)
          IN IF at # {}
               THEN /\ Len(cart') = Len(cart)
                    /\ \A i \in 1..Len(cart) :
                         cart'[i] = IF i \in at
                                      THEN [cart[i] EXCEPT
                                              !.quantity = @ + req.quantity]
                                      ELSE cart[i]
               ELSE /\ Len(cart') = Len(cart) + 1
                    /\ SubSeq(cart', 1, Len(cart)) = cart
                    /\ cart'[Len(cart')].owner = req.user.id
                    /\ cart'[Len(cart')].service_id = req.service_id
                    /\ cart'[Len(cart')].quantity = req.quantity]_vars
  /\ [](\A c \in UserIds, sv \in {"S1", "S2"} :
          Cardinality(Lines(cart, c, sv)) <= 1)
  /\ [](AddedS1Twice =>
          /\ Cardinality(Lines(cart, 1, "S1")) = 1
          /\ \A i \in Lines(cart, 1, "S1") : cart[i].quantity = 3)

C15_Witness ==
  /\ AddedS1Twice
  /\ \E i \in 1..Len(cart) :
       cart[i].owner = 1 /\ cart[i].service_id = "S1" /\ cart[i].quantity = 3


\* The calls of updateQuantity with the quantity given non-positive, and
\* with it positive.
UpdatesToRemove ==
  {k \in 1..Len(calls) :
     calls[k].op = "updateQuantity" /\ calls[k].arg[2] <= 0}

UpdatesToSet ==
  {k \in 1..Len(calls) :
     calls[k].op = "updateQuantity" /\ calls[k].arg[2] >= 1}

\* The requests the server handles in this step.
HandledNow ==
  {k \in 1..Len(calls) :
     calls[k].pc = "request" /\ calls'[k].pc = "response"}

\* C16: updateQuantity(item, n) with n <= 0 sends what removeFromCart(item)
\* sends and never an update request; no update request carries a
\* non-positive quantity; when the server has handled it the owner's line
\* item of that id is deleted and every other line item is as it was, and
\* a deleted line item is not stored again and is in no response to a get
\* from then on.  With n >= 1 it sends an update of the item to
\* n, and the server handling it sets the quantity of the owner's line
\* item of that id to n and changes no other line item.
C16_UpdateQuantity ==
  /\ [](\A k \in 1..Len(calls) :
          calls[k].req.op = "update" => calls[k].req.quantity >= 1)
  /\ [](\A k \in UpdatesToRemove :
          /\ calls[k].req.op \in {"none", "remove", "get"}
          /\ calls[k].req.op = "remove" =>
               calls[k].req = CartRequest("remove", session[calls[k].client],
                                          Undefined, 0, calls[k].arg[1]))
  /\ [][\A k \in HandledNow \cap UpdatesToRemove :
          calls[k].req.op = "remove" =>
            LET mine == {i \in 1..Len(cart) :
                           /\ cart[i].id = calls[k].arg[1]
                           /\ cart[i].owner = calls[k].client}
            IN /\ cart' = Without(cart, mine)
               /\ \A i \in mine : cart[i].id \in deleted']_vars
  /\ [](\A i \in 1..Len(cart) : cart[i].id \notin deleted)
  /\ [][\A k \in HandledNow :
          \A i \in 1..Len(calls'[k].res.cartItems) :
            calls'[k].res.cartItems[i].id \notin deleted']_vars
  /\ [](\A k \in UpdatesToSet :
          calls[k].req.op = "update" =>
            calls[k].req = CartRequest("update", session[calls[k].client],
                                       Undefined, calls[k].arg[2],
                                       calls[k].arg[1]))
  /\ [][\A k \in HandledNow :
          calls[k].req.op = "update" =>
            /\ Len(cart') = Len(cart)
            /\ \A i \in 1..Len(cart) :
                 cart'[i] = IF /\ cart[i].id = calls[k].arg[1]
                               /\ cart[i].owner = calls[k].client
                              THEN [cart[i] EXCEPT !.quantity = calls[k].arg[2]]
                              ELSE cart[i]]_vars

\* The first client has added S1, set the quantity of that line item to 2
\* and then to 0: the update was stored and the line item is gone.
C16_Witness ==
  /\ Len(calls) = 3
  /\ \A k \in 1..3 : calls[k].client = 1 /\ calls[k].pc = "done"
  /\ calls[1].op = "addToCart" /\ calls[1].result = Added
  /\ calls[2].op = "updateQuantity" /\ calls[2].arg = <<1, 2>>
  /\ calls[2].res.cartItems = <<[id |-> 1, service_id |-> "S1", quantity |-> 2]>>
  /\ calls[3].op = "updateQuantity" /\ calls[3].arg = <<1, 0>>
  /\ calls[3].req.op = "get"
  /\ cart = <<>> /\ cartItems[1] = <<>> /\ deleted = {1}


Owned(items, b) ==
  Without(items, {i \in 1..Len(items) : items[i].owner # b})

\* C18: the owner of every request is the identity of the token the
\* calling client presents; handling a request of A, whatever line item
\* id or service it names, leaves the line items of every other identity
\* as they were and answers with line items of A only; and no client ever
\* holds a line item another identity owns.
C18_OwnerIsolation ==
  /\ [][\A k \in HandledNow :
          LET a == calls[k].req.user.id
          IN /\ calls[k].req.user = session[calls[k].client]
             /\ a = calls[k].client
             /\ \A b \in UserIds \ {a} : Owned(cart', b) = Owned(cart, b)
             /\ \A i \in 1..Len(calls'[k].res.cartItems) :
                  \E j \in 1..Len(cart') :
                    /\ cart'[j].id = calls'[k].res.cartItems[i].id
                    /\ cart'[j].owner = a]_vars
  /\ [](\A c \in UserIds : \A i \in 1..Len(cartItems[c]) :
          \A j \in 1..Len(cart) :
            cart[j].id = cartItems[c][i].id => cart[j].owner = c)

\* The second user holds line item 1, the first client has asked to
\* remove line item 1 and the server has handled it: the line item is
\* still the second user's.
C18_Witness ==
  /\ \E k \in 1..Len(calls) :
       /\ calls[k].client = 1
       /\ calls[k].op \in {"removeFromCart", "updateQuantity"}
       /\ calls[k].arg[1] = 1
       /\ calls[k].req.op = "get"
       /\ calls[k].pc = "done"
  /\ \E j \in 1..Len(cart) : cart[j].id = 1 /\ cart[j].owner = 2
  /\ deleted = {}


\* The adds a call asks for, in the order it sends them.
Asked(call) ==
  IF call.op = "addToCart"
    THEN <<[service_id |-> ServiceId(call.arg), quantity |-> 1]>>
    ELSE [i \in 1..Len(call.arg) |->
            [service_id |-> call.arg[i].id,
             quantity |-> RequestedQuantity(call.arg[i])]]

\* How many of them the server has handled.
NumHandled(call) ==
  IF call.op \notin {"addToCart", "addMultipleToCart"} \/ call.req.op = "none"
    THEN 0
  ELSE IF call.req.op = "get" THEN Len(Asked(call))
  ELSE LET n == IF call.op = "addToCart" THEN 1 ELSE call.sent
       IN IF call.pc = "request" THEN n - 1 ELSE n

\* The quantities of the first n adds of asked that name service sv,
\* summed.
RECURSIVE SumAsked(_, _, _)
SumAsked(asked, n, sv) ==
  IF n = 0 THEN 0
  ELSE SumAsked(asked, n - 1, sv) +
       (IF asked[n].service_id = sv THEN asked[n].quantity ELSE 0)

\* The quantities of the handled adds of client c for service sv in the
\* first k calls, summed.
RECURSIVE SumHandled(_, _, _)
SumHandled(k, c, sv) ==
  IF k = 0 THEN 0
  ELSE SumHandled(k - 1, c, sv) +
       (IF calls[k].client = c
          THEN SumAsked(Asked(calls[k]), NumHandled(calls[k]), sv)
          ELSE 0)

\* Client c has had an add for service sv handled.
AnyHandled(c, sv) ==
  \E k \in 1..Len(calls) :
    /\ calls[k].client = c
    /\ \E i \in 1..NumHandled(calls[k]) : Asked(calls[k])[i].service_id = sv

\* Nothing but adds and loads has been called.
OnlyAdds ==
  \A k \in 1..Len(calls) :
    calls[k].op \in {"addToCart", "addMultipleToCart", "load"}

\* C19: as long as only adds are made, in sequence or awaiting at the same
\* time and handled in any order, a user's cart has for each service
\* exactly one line item once an add for it is handled, and its quantity
\* is the sum of the quantities of the adds handled: no add is lost and
\* none makes a second line item.
C19_ConcurrentAdds ==
  OnlyAdds =>
    \A c \in UserIds, sv \in {"S1", "S2"} :
      IF AnyHandled(c, sv)
        THEN /\ Cardinality(Lines(cart, c, sv)) = 1
             /\ \A i \in Lines(cart, c, sv) :
                  cart[i].quantity = SumHandled(Len(calls), c, sv)
        ELSE Lines(cart, c, sv) = {}

\* Two addToCart(S1) of the first client overlapped: the reload of the
\* first already saw the add of the second, and the cart holds one S1
\* line item of quantity 2.
C19_Witness ==
  /\ Len(calls) = 2
  /\ \A k \in 1..2 :
       /\ calls[k].client = 1 /\ calls[k].op = "addToCart"
       /\ calls[k].arg = [id |-> "S1"] /\ calls[k].result = Added
  /\ calls[1].res.cartItems = <<[id |-> 1, service_id |-> "S1", quantity |-> 2]>>
  /\ cart = <<LineItem(1, 1, "S1", 2)>>


\* C20: a call of load, addToCart, addMultipleToCart, removeFromCart,
\* updateQuantity or clearCart made while the client stores no token
\* returns at once without a request and the cart table stays as it is;
\* addToCart then returns {success: false} with the login message, and
\* load leaves cartItems empty.  No request is ever with the server
\* without the user of a token.
C20_NoTokenNoRequest ==
  /\ [][Len(calls') = Len(calls) + 1 =>
          LET call == calls'[Len(calls')]
          IN session[call.client] = NoUser =>
               /\ call.pc = "done"
               /\ call.req = NoRequest
               /\ cart' = cart
               /\ call.op = "addToCart" =>
                    call.result =
                      Returned(FALSE, "Please login to add items to cart")
               /\ call.op # "addToCart" => call.result = Void
               /\ call.op = "load" => cartItems'[call.client] = <<>>]_vars
  /\ [](\A k \in 1..Len(calls) :
          calls[k].pc = "request" => calls[k].req.user # NoUser)

\* The first client added S1 and held the line item, the user signed
\* out, and the client then called load and addToCart: cartItems is
\* empty, addToCart was refused and the stored line item is untouched.
C20_Witness ==
  /\ Len(calls) = 3
  /\ session[1] = NoUser
  /\ \A k \in 1..3 : calls[k].client = 1 /\ calls[k].pc = "done"
  /\ calls[1].op = "addToCart" /\ calls[1].result = Added
  /\ calls[1].res.cartItems = <<[id |-> 1, service_id |-> "S1", quantity |-> 1]>>
  /\ calls[2].op = "load" /\ calls[2].req = NoRequest
  /\ calls[3].op = "addToCart"
  /\ calls[3].result = Returned(FALSE, "Please login to add items to cart")
  /\ cartItems[1] = <<>>
  /\ cart = <<LineItem(1, 1, "S1", 1)>>


\* ------------------------------------------------------------ password login

\* The stored address each typed address stands for.
Sought(typed) ==
  CASE typed \in {"a@test.com", " A@Test.com "} -> "a@test.com"
    [] typed \in {"B@TEST.COM", "b@test.com  "} -> "b@test.com"
    [] OTHER -> typed

NamesActor(req) == targetUserId(req) = IdChars(req.user)

\* C22: a role-bearing request of an authenticated actor who is not admin
\* reaches the handler only when the role asked for is the actor's own and
\* the request names no target or names the actor; a request naming
\* another row never does, whether rows are keyed by number or by UUID.
C22_OtherTargetNeverPasses ==
  (/\ last.op = "patch"
   /\ last.req.body # NoBody
   /\ Truthy(attemptedRoleChange(last.req.body))
   /\ last.req.user # NoUser
   /\ last.req.user.user_type # "admin"
   /\ last.res.next)
  => /\ attemptedRoleChange(last.req.body) = last.req.user.user_type
     /\ ~TruthyId(targetUserId(last.req)) \/ NamesActor(last.req)


\* ------------------------------------------------------------ client and server

\* The calls of client c.
CallsOf(c) == {k \in 1..Len(calls) : calls[k].client = c}

\* C23: when a signed-in client has made only addToCart, removeFromCart,
\* updateQuantity and loadCartFromDatabase calls, one after the other or
\* awaiting at the same time, every request was answered with success and
\* every call has returned, its cartItems is the cart the server holds for
\* the user.
C23_ClientMatchesServer ==
  \A c \in UserIds :
    (/\ session[c] # NoUser
     /\ \E k \in CallsOf(c) : calls[k].req.op = "get"
     /\ \A k \in CallsOf(c) :
          /\ calls[k].pc = "done"
          /\ calls[k].op \in {"addToCart", "removeFromCart", "updateQuantity",
                              "load"})
    => cartItems[c] = CartGet(cart, c)


\* ------------------------------------------------------------ addToCart outcomes

\* The addToCart calls that resume in this step from the await of their
\* add request, and from the await of their reload.
AddResumes ==
  {k \in 1..Len(calls) :
     /\ calls[k].op = "addToCart" /\ calls[k].pc = "response"
     /\ calls'[k].pc # "response" /\ calls[k].req.op = "add"}

ReloadResumes ==
  {k \in 1..Len(calls) :
     /\ calls[k].op = "addToCart" /\ calls[k].pc = "response"
     /\ calls'[k].pc # "response" /\ calls[k].req.op = "get"}

\* C24: every addToCart call returns an object {success, message} with a
\* message: success false, with cartItems as it was, when the client has
\* no token, when the service has no id, when the add is answered with
\* success false and when the add request throws; success true when the
\* add was answered with success, whatever the reload then meets, and
\* only then.
C24_AddToCartResolves ==
  /\ [](\A k \in 1..Len(calls) :
          calls[k].op = "addToCart" /\ calls[k].pc = "done" =>
            /\ DOMAIN calls[k].result = {"success", "message"}
            /\ calls[k].result.success \in BOOLEAN
            /\ calls[k].result.message # ""
            /\ calls[k].result.success => calls[k].req.op = "get")
  /\ [][Len(calls') = Len(calls) + 1 =>
          LET call == calls'[Len(calls')]
          IN call.op = "addToCart" /\ call.pc = "done" =>
               ~call.result.success /\ cartItems' = cartItems]_vars
  /\ [][\A k \in AddResumes :
          IF calls[k].res.success /\ ~IsThrown(calls[k].res)
            THEN /\ calls'[k].pc = "request"
                 /\ calls'[k].req.op = "get"
            ELSE /\ calls'[k].pc = "done"
                 /\ ~calls'[k].result.success
                 /\ calls[k].res.message # "" =>
                      calls'[k].result.message = calls[k].res.message
                 /\ cartItems' = cartItems]_vars
  /\ [][\A k \in ReloadResumes :
          calls'[k].pc = "done" /\ calls'[k].result.success]_vars

\* The first client holds the S1 line item after one addToCart; a second
\* addToCart threw and a third was refused, and cartItems still holds it.
C24_Witness ==
  /\ Len(calls) = 3
  /\ \A k \in 1..3 :
       calls[k].client = 1 /\ calls[k].op = "addToCart" /\ calls[k].pc = "done"
  /\ calls[1].result = Returned(TRUE, "Item added to cart")
  /\ calls[2].result = Returned(FALSE, "Network Error")
  /\ calls[3].result = Returned(FALSE, "Failed to add to cart")
  /\ cartItems[1] = <<[id |-> 1, service_id |-> "S1", quantity |-> 1]>>


\* ------------------------------------------------------------ backfill

\* C25: after one or more completed runs of the migration every row with a
\* google_id and no password has auth_provider google and every row with a
\* google_id and a password has auth_provider both; a run changes nothing
\* of a row but auth_provider, leaves a row without google_id as it was
\* (with the column's default where the column is new), and a completed
\* run after a completed run leaves the table as it was.
C25_Backfill ==
  /\ [](last.op = "migration" /\ last.runs >= 1 /\ ~last.failed =>
          \A i \in 1..Len(users) :
            /\ users[i].google_id # NULL /\ users[i].password = NULL =>
                 users[i].auth_provider = "google"
            /\ users[i].google_id # NULL /\ users[i].password # NULL =>
                 users[i].auth_provider = "both")
  /\ [][last.op = "migration" /\ last'.runs = last.runs + 1 /\ ~last'.failed =>
          /\ Len(users') = Len(users)
          /\ \A i \in 1..Len(users) :
               /\ [users'[i] EXCEPT !.auth_provider = ""] =
                    [users[i] EXCEPT !.auth_provider = ""]
               /\ users[i].google_id = NULL =>
                    users'[i].auth_provider =
                      IF last.column THEN users[i].auth_provider ELSE "email"
          /\ last.runs >= 1 /\ ~last.failed => users' = users]_vars

\* The migration has run twice on a table that had no auth_provider
\* column: a row with Google identity and password says both, a row
\* without Google identity says email.
C25_Witness ==
  /\ last.op = "migration" /\ last.runs = 2 /\ ~last.failed
  /\ Len(users) = 2
  /\ users[1].google_id # NULL /\ users[1].password # NULL
  /\ users[1].auth_provider = "both"
  /\ users[2].google_id = NULL /\ users[2].auth_provider = "email"
  /\ last.column /\ last.constraint


\* ------------------------------------------------------------ one outcome

====
